---- MODULE Spec2Model ----
(***************************************************************************)
(* tensorframes/core.py: the Python front end of the TensorFrames engine.  *)
(* The model covers the memoized connection pair (_sc, _sql), fetch        *)
(* validation, shape metadata, the remote builder protocol and result      *)
(* unpacking, for one caller thread (Spec) and for two caller threads      *)
(* (SpecRace).                                                             *)
(***************************************************************************)
EXTENDS Integers, Sequences, FiniteSets, TLC

VARIABLES
    threads,        \* the caller threads of this process
    active,         \* SparkContext._active_spark_context
    _sc,            \* core.py:11
    _sql,           \* core.py:12
    pc,             \* per thread: the statement it executes next
    op,             \* per thread: the public function being called
    fetches,        \* per thread: the fetches argument (after _check_fetches: a list)
    dframe,         \* per thread: the dframe argument
    validated,      \* per thread: what _get_graph computed (fetch_names, col_names, graph)
    jdf,            \* per thread: the handle the remote build step returned
    row,            \* per thread: the row df.first() returned
    log,            \* per thread: the cross-boundary calls of the current call, in order
    ret,            \* per thread: the value returned by the finished call
    exc,            \* per thread: the exception the finished call raised ("none" if none)
    sc0,            \* per thread: (_sc, _sql) as they were on entry of the call
    ncalls,         \* public calls started so far
    discoveries,    \* executions of line 22 so far
    instances       \* executions of loadClass(...).newInstance() so far

vars == <<threads, active, _sc, _sql, pc, op, fetches, dframe, validated, jdf, row,
          log, ret, exc, sc0, ncalls, discoveries, instances>>

(* ---------------------------- bounds ----------------------------------- *)
MaxFetches == 2
MaxCols == 2
MaxCalls == 2

(* ------------------------- Python values ------------------------------- *)
None == [type |-> "NoneType"]

TheContext == [type |-> "SparkContext", id |-> "sc"]

SQLContext(sc) == [type |-> "SQLContext", sparkContext |-> sc]

DataFrame(j, sql_ctx) == [type |-> "DataFrame", _jdf |-> j, sql_ctx |-> sql_ctx]

Tensor(opname, i) == [type |-> "Tensor", op |-> opname, value_index |-> i]

Operation(opname) == [type |-> "Operation", op |-> opname]

Str(chars) == [type |-> "str", value |-> chars]

PyInt(n) == [type |-> "int", value |-> n]

PyList(items) == [type |-> "list", items |-> items]

Dim(n) == [known |-> TRUE, size |-> n]

UnknownDim == [known |-> FALSE, size |-> 0]

(* Strings are sequences of characters, so that split and concatenation *)
(* are computed rather than assumed.                                      *)
Digits == <<"0", "1", "2", "3">>

IsDigit(c) == \E i \in 1..Len(Digits) : Digits[i] = c

IntOf(c) == (CHOOSE i \in 1..Len(Digits) : Digits[i] = c) - 1

(* int(s) succeeds on a non-empty string of digits *)
IsInt(s) == Len(s) > 0 /\ \A i \in 1..Len(s) : IsDigit(s[i])

RECURSIVE ParseInt(_)
ParseInt(s) ==
    IF Len(s) = 0 THEN 0
    ELSE 10 * ParseInt(SubSeq(s, 1, Len(s) - 1)) + IntOf(s[Len(s)])

StrOf(n) == <<Digits[n + 1]>>

(* ------------------------- the active graph ---------------------------- *)
(* x: a placeholder of shape (3, None); z: an operation on x with two     *)
(* outputs, of shapes (2, 4) and (None,); c: a scalar constant.           *)
DefaultGraph ==
    [type |-> "Graph",
     node |-> << [name |-> <<"x">>, input |-> <<>>,
                  outputs |-> << <<Dim(3), UnknownDim>> >>],
                 [name |-> <<"z">>, input |-> << <<"x">> >>,
                  outputs |-> << <<Dim(2), Dim(4)>>, <<UnknownDim>> >>],
                 [name |-> <<"c">>, input |-> <<>>,
                  outputs |-> << <<>> >>] >>]

HasNode(graph, opname) == \E i \in 1..Len(graph.node) : graph.node[i].name = opname

NodeOf(graph, opname) ==
    graph.node[CHOOSE i \in 1..Len(graph.node) : graph.node[i].name = opname]

(* element.name: "<op>:<index>" for a tensor, "<op>" for an operation *)
NameOf(elem) ==
    IF elem.type = "Tensor" THEN elem.op \o <<":">> \o StrOf(elem.value_index)
    ELSE elem.op

(* str.split(sep) *)
RECURSIVE split(_, _)
split(s, sep) ==
    IF \E i \in 1..Len(s) : s[i] = sep
    THEN LET k == CHOOSE i \in 1..Len(s) :
                      s[i] = sep /\ \A j \in 1..(i - 1) : s[j] # sep
         IN <<SubSeq(s, 1, k - 1)>> \o split(SubSeq(s, k + 1, Len(s)), sep)
    ELSE <<s>>

(* graph.as_graph_element(obj, allow_tensor=True, allow_operation) *)
as_graph_element(graph, obj, allow_operation) ==
    CASE obj.type = "Tensor" -> [exc |-> "none", elem |-> obj]
      [] obj.type = "Operation" ->
            IF allow_operation THEN [exc |-> "none", elem |-> obj]
            ELSE [exc |-> "TypeError", elem |-> None]
      [] obj.type = "str" ->
            LET parts == split(obj.value, ":") IN
            IF Len(parts) > 1
            THEN IF Len(parts) # 2
                 THEN [exc |-> "ValueError", elem |-> None]
                 ELSE IF ~IsInt(parts[2])
                 THEN [exc |-> "ValueError", elem |-> None]
                 ELSE IF ~HasNode(graph, parts[1])
                 THEN [exc |-> "KeyError", elem |-> None]
                 ELSE IF ParseInt(parts[2]) >= Len(NodeOf(graph, parts[1]).outputs)
                 THEN [exc |-> "KeyError", elem |-> None]
                 ELSE [exc |-> "none", elem |-> Tensor(parts[1], ParseInt(parts[2]))]
            ELSE IF ~allow_operation
                 THEN [exc |-> "ValueError", elem |-> None]
                 ELSE IF ~HasNode(graph, obj.value)
                 THEN [exc |-> "KeyError", elem |-> None]
                 ELSE [exc |-> "none", elem |-> Operation(obj.value)]
      [] OTHER -> [exc |-> "TypeError", elem |-> None]

(* ------------------------- request construction ------------------------ *)
(* tf.get_default_graph() *)
get_default_graph == DefaultGraph

(* lines 59-63: a single fetch is wrapped, a list is used as it is *)
_check_fetches(f) == IF f.type = "list" THEN f.items ELSE <<f>>

(* lines 265-280: the resolved name, or the translated exception *)
_validate_fetch(graph, fetch) ==
    LET r == as_graph_element(graph, fetch, TRUE) IN
    CASE r.exc = "none" -> [exc |-> "none", name |-> NameOf(r.elem)]
      [] r.exc = "TypeError" -> [exc |-> "TypeError", name |-> <<>>]
      [] r.exc = "ValueError" -> [exc |-> "ValueError", name |-> <<>>]
      [] r.exc = "KeyError" -> [exc |-> "ValueError", name |-> <<>>]

(* faulty variant: the last component of the split instead of the first *)
StripPortsLast(fetch_names) ==
    [i \in 1..Len(fetch_names) |->
        split(fetch_names[i], ":")[Len(split(fetch_names[i], ":"))]]

(* faulty variant: the port index is not stripped *)
NoStripPorts(fetch_names) == fetch_names

(* line 70: s.split(":")[0] for every resolved name *)
StripPorts(fetch_names) ==
    [i \in 1..Len(fetch_names) |-> split(fetch_names[i], ":")[1]]

(* line 71: len(set(col_names)) != len(col_names) *)
HasDuplicates(col_names) ==
    Cardinality({col_names[i] : i \in 1..Len(col_names)}) # Len(col_names)

NotValidated ==
    [exc |-> "none", at |-> "", graph |-> None, fetch_names |-> <<>>,
     col_names |-> <<>>]

(* faulty variant: the uniqueness check of lines 71-72 is left out *)
_get_graph_unchecked(fs) ==
    LET graph == get_default_graph
        res == [i \in 1..Len(fs) |-> _validate_fetch(graph, fs[i])]
        bad == {i \in 1..Len(fs) : res[i].exc # "none"}
    IN  IF bad # {}
        THEN [NotValidated EXCEPT
                 !.exc = res[CHOOSE i \in bad : \A j \in bad : i <= j].exc,
                 !.at = "_validate_fetch"]
        ELSE [exc |-> "none", at |-> "", graph |-> graph,
              fetch_names |-> [i \in 1..Len(fs) |-> res[i].name],
              col_names |-> StripPorts([i \in 1..Len(fs) |-> res[i].name])]

(* lines 65-73: the first fetch that does not resolve raises; then the   *)
(* uniqueness check; the function returns the graph.                       *)
_get_graph(fs) ==
    LET graph == get_default_graph
        res == [i \in 1..Len(fs) |-> _validate_fetch(graph, fs[i])]
        bad == {i \in 1..Len(fs) : res[i].exc # "none"}
    IN  IF bad # {}
        THEN [NotValidated EXCEPT
                 !.exc = res[CHOOSE i \in bad : \A j \in bad : i <= j].exc,
                 !.at = "_validate_fetch"]
        ELSE LET fetch_names == [i \in 1..Len(fs) |-> res[i].name]
                 col_names == StripPorts(fetch_names)
             IN  IF HasDuplicates(col_names)
                 THEN [exc |-> "ValueError", at |-> "_get_graph", graph |-> None,
                       fetch_names |-> fetch_names, col_names |-> col_names]
                 ELSE [exc |-> "none", at |-> "", graph |-> graph,
                       fetch_names |-> fetch_names, col_names |-> col_names]

(* tensor.get_shape().as_list(): the static shape of the tensor's output *)
as_list(graph, t) == NodeOf(graph, t.op).outputs[t.value_index + 1]

(* lines 31-33 *)
_get_shape(graph, t) ==
    LET l == as_list(graph, t) IN
    [i \in 1..Len(l) |-> IF l[i].known THEN l[i].size ELSE -1]

(* fetch.name exists on tensors and operations, fetch.get_shape on tensors *)
HasName(fetch) == fetch.type \in {"Tensor", "Operation"}

HasGetShape(fetch) == fetch.type = "Tensor"

(* lines 47-54: the nodes with an empty input list, in graph order *)
RECURSIVE Placeholders(_, _)
Placeholders(graph, k) ==
    IF k > Len(graph.node) THEN <<>>
    ELSE LET n == graph.node[k] IN
         IF Len(n.input) = 0
         THEN <<as_graph_element(graph, Str(n.name \o <<":", "0">>), FALSE)>>
                  \o Placeholders(graph, k + 1)
         ELSE Placeholders(graph, k + 1)

(* lines 40-57: the arguments of builder.shape, or the exception raised *)
ShapeArgs(graph, fs) ==
    LET ph == Placeholders(graph, 1) IN
    IF \E i \in 1..Len(fs) : ~HasName(fs[i]) \/ ~HasGetShape(fs[i])
    THEN [exc |-> "AttributeError", names |-> <<>>, shapes |-> <<>>]
    ELSE IF \E i \in 1..Len(ph) : ph[i].exc # "none"
    THEN [exc |-> "KeyError", names |-> <<>>, shapes |-> <<>>]
    ELSE [exc |-> "none",
          names |-> [i \in 1..Len(fs) |-> NameOf(fs[i])]
                       \o [i \in 1..Len(ph) |-> NameOf(ph[i].elem)],
          shapes |-> [i \in 1..Len(fs) |-> _get_shape(graph, fs[i])]
                       \o [i \in 1..Len(ph) |-> _get_shape(graph, ph[i].elem)]]

(* faulty variant: the row is returned as a list whatever its length *)
UnpackAlwaysList(l) == PyList(l)

(* lines 78-81: a row of one column is returned bare *)
UnpackList(l) == IF Len(l) = 1 THEN l[1] ELSE PyList(l)

(* ------------------------- inputs -------------------------------------- *)
Threads == {1, 2}

BuilderOps == {"reduce_rows", "map_rows", "map_blocks", "reduce_blocks"}

Reductions == {"reduce_rows", "reduce_blocks"}

PublicOps == BuilderOps \cup {"analyze", "print_schema"}

(* a fetch is a tensor, an operation, a name, or something else *)
FetchUniverse ==
    {Tensor(<<"z">>, 0), Tensor(<<"z">>, 1), Tensor(<<"x">>, 0),
     Operation(<<"z">>), Str(<<"z", ":", "1">>), Str(<<"q">>), PyInt(7)}

RECURSIVE SeqsUpTo(_, _)
SeqsUpTo(S, n) ==
    IF n = 0 THEN {<<>>}
    ELSE LET shorter == SeqsUpTo(S, n - 1) IN
         shorter \cup {Append(q, e) : q \in shorter, e \in S}

(* With one caller the inputs range over every case of the request; with *)
(* two callers they are cut down to one valid and one invalid fetch, one  *)
(* dataframe and one result, since what the callers share is (_sc, _sql). *)
Solo == Cardinality(threads) = 1

FetchArgs ==
    IF Solo
    THEN FetchUniverse \cup {PyList(q) : q \in SeqsUpTo(FetchUniverse, MaxFetches)}
    ELSE {Tensor(<<"z">>, 0), PyInt(7)}

DFrames ==
    IF Solo
    THEN {DataFrame("j1", None), DataFrame("j2", None)}
    ELSE {DataFrame("j1", None)}

(* the handles and rows the remote engine may hand back *)
ResultHandles == IF Solo THEN {"r1", "r2"} ELSE {"r1"}

Values == {[type |-> "ndarray", v |-> 10], [type |-> "ndarray", v |-> 20]}

Rows == IF Solo THEN SeqsUpTo(Values, MaxCols) ELSE {<<[type |-> "ndarray", v |-> 10]>>}

NoExc == [type |-> "none", at |-> ""]

(* ------------------------- state --------------------------------------- *)
InitWith(T) ==
    /\ threads = T
    /\ active \in {None, TheContext}
    /\ _sc = None
    /\ _sql = None
    /\ pc = [t \in T |-> "idle"]
    /\ op = [t \in T |-> "none"]
    /\ fetches = [t \in T |-> None]
    /\ dframe = [t \in T |-> None]
    /\ validated = [t \in T |-> NotValidated]
    /\ jdf = [t \in T |-> None]
    /\ row = [t \in T |-> <<>>]
    /\ log = [t \in T |-> <<>>]
    /\ ret = [t \in T |-> None]
    /\ exc = [t \in T |-> NoExc]
    /\ sc0 = [t \in T |-> <<None, None>>]
    /\ ncalls = 0
    /\ discoveries = 0
    /\ instances = 0

Init == InitWith({1})

InitRace == InitWith(Threads)

(* the call of thread t ends with exception e raised at `where` *)
Raise(t, e, where) ==
    /\ pc' = [pc EXCEPT ![t] = "done"]
    /\ exc' = [exc EXCEPT ![t] = [type |-> e, at |-> where]]
    /\ ret' = [ret EXCEPT ![t] = None]

Return(t, v) ==
    /\ pc' = [pc EXCEPT ![t] = "done"]
    /\ ret' = [ret EXCEPT ![t] = v]
    /\ exc' = exc

Goto(t, l) ==
    /\ pc' = [pc EXCEPT ![t] = l]
    /\ UNCHANGED <<ret, exc>>

Remote(t, m, args) == log' = [log EXCEPT ![t] = Append(@, [m |-> m, args |-> args])]

(* graph.as_graph_def().SerializeToString() as a bytearray *)
Serialized(graph) == [type |-> "bytearray", of |-> graph.node]

(* ------------------------- environment --------------------------------- *)
(* a SparkContext is started: it becomes the active context *)
StartContext ==
    /\ active = None
    /\ active' = TheContext
    /\ UNCHANGED <<threads, _sc, _sql, pc, op, fetches, dframe, validated, jdf,
                   row, log, ret, exc, sc0, ncalls, discoveries, instances>>

(* the active SparkContext is stopped *)
StopContext ==
    /\ active # None
    /\ active' = None
    /\ UNCHANGED <<threads, _sc, _sql, pc, op, fetches, dframe, validated, jdf,
                   row, log, ret, exc, sc0, ncalls, discoveries, instances>>

(* a thread calls a public function *)
Call(t) ==
    /\ t \in threads
    /\ pc[t] = "idle"
    /\ ncalls < MaxCalls
    /\ \E f \in PublicOps, d \in DFrames :
          /\ op' = [op EXCEPT ![t] = f]
          /\ dframe' = [dframe EXCEPT ![t] = d]
          /\ IF f \in BuilderOps
             THEN /\ \E a \in FetchArgs : fetches' = [fetches EXCEPT ![t] = a]
                  /\ pc' = [pc EXCEPT ![t] = "start"]
             ELSE /\ fetches' = [fetches EXCEPT ![t] = None]
                  /\ pc' = [pc EXCEPT ![t] = "java_api"]
    /\ validated' = [validated EXCEPT ![t] = NotValidated]
    /\ jdf' = [jdf EXCEPT ![t] = None]
    /\ row' = [row EXCEPT ![t] = <<>>]
    /\ log' = [log EXCEPT ![t] = <<>>]
    /\ ret' = [ret EXCEPT ![t] = None]
    /\ exc' = [exc EXCEPT ![t] = NoExc]
    /\ sc0' = [sc0 EXCEPT ![t] = <<_sc, _sql>>]
    /\ ncalls' = ncalls + 1
    /\ UNCHANGED <<threads, active, _sc, _sql, discoveries, instances>>

(* the call is over: its result or exception is with the caller and its *)
(* locals are gone                                                        *)
Returned(t) ==
    /\ t \in threads
    /\ pc[t] = "done"
    /\ pc' = [pc EXCEPT ![t] = "idle"]
    /\ op' = [op EXCEPT ![t] = "none"]
    /\ fetches' = [fetches EXCEPT ![t] = None]
    /\ dframe' = [dframe EXCEPT ![t] = None]
    /\ validated' = [validated EXCEPT ![t] = NotValidated]
    /\ jdf' = [jdf EXCEPT ![t] = None]
    /\ row' = [row EXCEPT ![t] = <<>>]
    /\ log' = [log EXCEPT ![t] = <<>>]
    /\ ret' = [ret EXCEPT ![t] = None]
    /\ exc' = [exc EXCEPT ![t] = NoExc]
    /\ sc0' = [sc0 EXCEPT ![t] = <<None, None>>]
    /\ UNCHANGED <<threads, active, _sc, _sql, ncalls, discoveries, instances>>

(* ------------------------- _java_api, lines 15-29 ---------------------- *)
(* faulty variant: discovery runs on every call *)
api_test_always(t, f) ==
    /\ t \in threads
    /\ op[t] = f
    /\ pc[t] = "java_api"
    /\ Goto(t, "l22")
    /\ UNCHANGED <<threads, active, _sc, _sql, op, fetches, dframe, validated,
                   jdf, row, log, sc0, ncalls, discoveries, instances>>

(* line 21: if _sc is None *)
api_test(t, f) ==
    /\ t \in threads
    /\ op[t] = f
    /\ pc[t] = "java_api"
    /\ Goto(t, IF _sc = None THEN "l22" ELSE "l25")
    /\ UNCHANGED <<threads, active, _sc, _sql, op, fetches, dframe, validated,
                   jdf, row, log, sc0, ncalls, discoveries, instances>>

(* line 22: _sc = SparkContext._active_spark_context *)
api_discover(t, f) ==
    /\ t \in threads
    /\ op[t] = f
    /\ pc[t] = "l22"
    /\ _sc' = active
    /\ discoveries' = discoveries + 1
    /\ Goto(t, "l24")
    /\ UNCHANGED <<threads, active, _sql, op, fetches, dframe, validated, jdf,
                   row, log, sc0, ncalls, instances>>

(* line 24: _sql = SQLContext(_sc); the constructor dereferences _sc and *)
(* asks the JVM for its context, so it raises on None and may raise on a *)
(* context.                                                                *)
api_sql(t, f) ==
    /\ t \in threads
    /\ op[t] = f
    /\ pc[t] = "l24"
    /\ \/ /\ _sc = None
          /\ Raise(t, "AttributeError", "_java_api")
          /\ _sql' = _sql
       \/ /\ _sc # None
          /\ \/ /\ _sql' = SQLContext(_sc)
                /\ Goto(t, "l25")
             \/ /\ Raise(t, "Py4JJavaError", "_java_api")
                /\ _sql' = _sql
    /\ UNCHANGED <<threads, active, _sc, op, fetches, dframe, validated, jdf,
                   row, log, sc0, ncalls, discoveries, instances>>

(* lines 25-29: _sc._jvm, then loadClass(javaClassName).newInstance() *)
api_load(t, f) ==
    /\ t \in threads
    /\ op[t] = f
    /\ pc[t] = "l25"
    /\ \/ /\ _sc = None
          /\ Raise(t, "AttributeError", "_java_api")
          /\ instances' = instances
       \/ /\ _sc # None
          /\ \/ /\ instances' = instances + 1
                /\ Goto(t, "entry")
             \/ /\ Raise(t, "Py4JJavaError", "newInstance")
                /\ instances' = instances
    /\ UNCHANGED <<threads, active, _sc, _sql, op, fetches, dframe, validated,
                   jdf, row, log, sc0, ncalls, discoveries>>

_java_api(t, f) ==
    api_test(t, f) \/ api_discover(t, f) \/ api_sql(t, f) \/ api_load(t, f)

(* ------------------------- request steps ------------------------------- *)
(* fetches = _check_fetches(fetches); graph = _get_graph(fetches) *)
validate(t, f) ==
    /\ t \in threads
    /\ op[t] = f
    /\ pc[t] = "start"
    /\ LET fs == _check_fetches(fetches[t])
           v == _get_graph(fs)
       IN  /\ fetches' = [fetches EXCEPT ![t] = fs]
           /\ validated' = [validated EXCEPT ![t] = v]
           /\ IF v.exc # "none" THEN Raise(t, v.exc, v.at) ELSE Goto(t, "java_api")
    /\ UNCHANGED <<threads, active, _sc, _sql, op, dframe, jdf, row, log, sc0,
                   ncalls, discoveries, instances>>

(* builder = _java_api().<m>(dframe._jdf) *)
entry_point(t, m) ==
    /\ t \in threads
    /\ op[t] = m
    /\ pc[t] = "entry"
    /\ Remote(t, m, <<dframe[t]._jdf>>)
    /\ \/ Goto(t, "add_graph")
       \/ Raise(t, "Py4JJavaError", m)
    /\ UNCHANGED <<threads, active, _sc, _sql, op, fetches, dframe, validated,
                   jdf, row, sc0, ncalls, discoveries, instances>>

(* faulty variant: the graph is not attached to the builder *)
_add_graph_skipped(t, f) ==
    /\ t \in threads
    /\ op[t] = f
    /\ pc[t] = "add_graph"
    /\ Goto(t, "add_shapes")
    /\ UNCHANGED <<threads, active, _sc, _sql, op, fetches, dframe, validated,
                   jdf, row, log, sc0, ncalls, discoveries, instances>>

(* lines 35-38 *)
_add_graph(t, f) ==
    /\ t \in threads
    /\ op[t] = f
    /\ pc[t] = "add_graph"
    /\ Remote(t, "graph", <<Serialized(validated[t].graph)>>)
    /\ \/ Goto(t, "add_shapes")
       \/ Raise(t, "Py4JJavaError", "graph")
    /\ UNCHANGED <<threads, active, _sc, _sql, op, fetches, dframe, validated,
                   jdf, row, sc0, ncalls, discoveries, instances>>

(* lines 40-57 *)
_add_shapes(t, f) ==
    /\ t \in threads
    /\ op[t] = f
    /\ pc[t] = "add_shapes"
    /\ LET a == ShapeArgs(validated[t].graph, fetches[t]) IN
       IF a.exc # "none"
       THEN /\ Raise(t, a.exc, "_add_shapes")
            /\ log' = log
       ELSE /\ Remote(t, "shape", <<a.names, a.shapes>>)
            /\ \/ Goto(t, "build")
               \/ Raise(t, "Py4JJavaError", "shape")
    /\ UNCHANGED <<threads, active, _sc, _sql, op, fetches, dframe, validated,
                   jdf, row, sc0, ncalls, discoveries, instances>>

(* df = builder.buildRow() or jdf = builder.buildDF() *)
build(t, f, m, next) ==
    /\ t \in threads
    /\ op[t] = f
    /\ pc[t] = "build"
    /\ Remote(t, m, <<>>)
    /\ \/ /\ \E h \in ResultHandles : jdf' = [jdf EXCEPT ![t] = h]
          /\ Goto(t, next)
       \/ /\ Raise(t, "Py4JJavaError", m)
          /\ jdf' = jdf
    /\ UNCHANGED <<threads, active, _sc, _sql, op, fetches, dframe, validated,
                   row, sc0, ncalls, discoveries, instances>>

(* return DataFrame(jdf, _sql) *)
wrap(t, f) ==
    /\ t \in threads
    /\ op[t] = f
    /\ pc[t] = "wrap"
    /\ Return(t, DataFrame(jdf[t], _sql))
    /\ UNCHANGED <<threads, active, _sc, _sql, op, fetches, dframe, validated,
                   jdf, row, log, sc0, ncalls, discoveries, instances>>

(* lines 75-81 *)
_unpack_row(t, f) ==
    /\ t \in threads
    /\ op[t] = f
    /\ pc[t] = "unpack"
    /\ Remote(t, "first", <<DataFrame(jdf[t], _sql)>>)
    /\ \/ \E r \in Rows :
             /\ row' = [row EXCEPT ![t] = r]
             /\ Return(t, UnpackList(r))
       \/ /\ Raise(t, "Py4JJavaError", "first")
          /\ row' = row
    /\ UNCHANGED <<threads, active, _sc, _sql, op, fetches, dframe, validated,
                   jdf, sc0, ncalls, discoveries, instances>>

(* ------------------------- public functions ---------------------------- *)
(* lines 113-119 *)
reduce_rows(t) ==
    \/ validate(t, "reduce_rows")
    \/ _java_api(t, "reduce_rows")
    \/ entry_point(t, "reduce_rows")
    \/ _add_graph(t, "reduce_rows")
    \/ _add_shapes(t, "reduce_rows")
    \/ build(t, "reduce_rows", "buildRow", "unpack")
    \/ _unpack_row(t, "reduce_rows")

(* faulty variant: map_rows unpacks its result like a reduction *)
map_rows_eager(t) ==
    \/ validate(t, "map_rows")
    \/ _java_api(t, "map_rows")
    \/ entry_point(t, "map_rows")
    \/ _add_graph(t, "map_rows")
    \/ _add_shapes(t, "map_rows")
    \/ build(t, "map_rows", "buildDF", "unpack")
    \/ _unpack_row(t, "map_rows")

(* lines 153-159 *)
map_rows(t) ==
    \/ validate(t, "map_rows")
    \/ _java_api(t, "map_rows")
    \/ entry_point(t, "map_rows")
    \/ _add_graph(t, "map_rows")
    \/ _add_shapes(t, "map_rows")
    \/ build(t, "map_rows", "buildDF", "wrap")
    \/ wrap(t, "map_rows")

(* lines 192-199 *)
map_blocks(t) ==
    \/ validate(t, "map_blocks")
    \/ _java_api(t, "map_blocks")
    \/ entry_point(t, "map_blocks")
    \/ _add_graph(t, "map_blocks")
    \/ _add_shapes(t, "map_blocks")
    \/ build(t, "map_blocks", "buildDF", "wrap")
    \/ wrap(t, "map_blocks")

(* lines 231-237 *)
reduce_blocks(t) ==
    \/ validate(t, "reduce_blocks")
    \/ _java_api(t, "reduce_blocks")
    \/ entry_point(t, "reduce_blocks")
    \/ _add_graph(t, "reduce_blocks")
    \/ _add_shapes(t, "reduce_blocks")
    \/ build(t, "reduce_blocks", "buildRow", "unpack")
    \/ _unpack_row(t, "reduce_blocks")

(* the remote explain of line 248, whose result is printed *)
explain(t) ==
    /\ t \in threads
    /\ op[t] = "print_schema"
    /\ pc[t] = "entry"
    /\ Remote(t, "explain", <<dframe[t]._jdf>>)
    /\ \/ Return(t, None)
       \/ Raise(t, "Py4JJavaError", "explain")
    /\ UNCHANGED <<threads, active, _sc, _sql, op, fetches, dframe, validated,
                   jdf, row, sc0, ncalls, discoveries, instances>>

(* line 248: print(_java_api().explain(dframe._jdf)) *)
print_schema(t) ==
    \/ _java_api(t, "print_schema")
    \/ explain(t)

(* the remote analyze of line 263 *)
analyze_remote(t) ==
    /\ t \in threads
    /\ op[t] = "analyze"
    /\ pc[t] = "entry"
    /\ Remote(t, "analyze", <<dframe[t]._jdf>>)
    /\ \/ /\ \E h \in ResultHandles : jdf' = [jdf EXCEPT ![t] = h]
          /\ Goto(t, "wrap")
       \/ /\ Raise(t, "Py4JJavaError", "analyze")
          /\ jdf' = jdf
    /\ UNCHANGED <<threads, active, _sc, _sql, op, fetches, dframe, validated,
                   row, sc0, ncalls, discoveries, instances>>

(* line 263: DataFrame(_java_api().analyze(dframe._jdf), _sql) *)
analyze(t) ==
    \/ _java_api(t, "analyze")
    \/ analyze_remote(t)
    \/ wrap(t, "analyze")

Next ==
    \/ StartContext
    \/ StopContext
    \/ \E t \in Threads :
          \/ Call(t)
          \/ Returned(t)
          \/ reduce_rows(t)
          \/ map_rows(t)
          \/ map_blocks(t)
          \/ reduce_blocks(t)
          \/ print_schema(t)
          \/ analyze(t)

Spec == Init /\ [][Next]_vars

SpecRace == InitRace /\ [][Next]_vars

(* ======================= properties ==================================== *)
(* what the claims speak of, stated without the operators of the model *)
Base(s) ==
    LET n == CHOOSE k \in 0..Len(s) :
                 /\ \A i \in 1..k : s[i] # ":"
                 /\ k = Len(s) \/ s[k + 1] = ":"
    IN  SubSeq(s, 1, n)

ResolvedName(f) ==
    CASE f.type = "Tensor" -> f.op \o <<":">> \o <<Digits[f.value_index + 1]>>
      [] f.type = "Operation" -> f.op
      [] f.type = "str" -> f.value
      [] OTHER -> <<>>

Resolvable(f) ==
    CASE f.type \in {"Tensor", "Operation"} -> TRUE
      [] f.type = "str" ->
            \E k \in 1..Len(DefaultGraph.node) :
               LET n == DefaultGraph.node[k] IN
               \/ f.value = n.name
               \/ \E i \in 1..Len(n.outputs) :
                     f.value = n.name \o <<":", Digits[i]>>
      [] OTHER -> FALSE

SharesBase(fs) ==
    \E i, j \in 1..Len(fs) :
       i < j /\ Base(ResolvedName(fs[i])) = Base(ResolvedName(fs[j]))

(* thread t is in a call of a builder function, past validation *)
Validating(t) == t \in threads /\ op[t] \in BuilderOps /\ pc[t] \notin {"idle", "start"}

Finished(t) == t \in threads /\ pc[t] = "done"

Succeeded(t) == Finished(t) /\ exc[t].type = "none"

Methods(l) == [i \in 1..Len(l) |-> l[i].m]

IsPrefix(a, b) == Len(a) <= Len(b) /\ SubSeq(b, 1, Len(a)) = a

(* the fetches of the call of thread t must be rejected *)
C1_Rejected(t) ==
    /\ Validating(t)
    /\ \/ \E i \in 1..Len(fetches[t]) : ~Resolvable(fetches[t][i])
       \/ SharesBase(fetches[t])

(* C1: a call of reduce_rows, map_rows, map_blocks or reduce_blocks with a *)
(* fetch of an unsupported type, an unresolvable fetch or two fetches of   *)
(* one base name ends with a type or value error, has made no remote call  *)
(* and has left (_sc, _sql) as they were on entry.                         *)
C1_RejectedBeforeRemote ==
    \A t \in Threads :
       C1_Rejected(t) =>
          /\ pc[t] = "done"
          /\ exc[t].type \in {"TypeError", "ValueError"}
          /\ log[t] = <<>>
          /\ <<_sc, _sql>> = sc0[t]

C1_Witness ==
    \E t \in Threads :
       /\ C1_Rejected(t)
       /\ exc[t].at = "_get_graph"
       /\ op[t] = "reduce_rows"
       /\ _sql # None

(* C2: for resolvable fetches, _get_graph raises its value error exactly   *)
(* when two of them have the same name up to the first colon.              *)
C2_DuplicateIffRaised ==
    \A t \in Threads :
       (Validating(t) /\ \A i \in 1..Len(fetches[t]) : Resolvable(fetches[t][i])) =>
          /\ SharesBase(fetches[t]) <=>
                (pc[t] = "done" /\ exc[t] = [type |-> "ValueError", at |-> "_get_graph"])
          /\ ~SharesBase(fetches[t]) =>
                (validated[t].exc = "none" /\ exc[t].at \notin {"_get_graph", "_validate_fetch"})

C2_Witness ==
    \E t \in Threads :
       /\ Validating(t)
       /\ fetches[t] = <<Tensor(<<"z">>, 0), Tensor(<<"z">>, 1)>>
       /\ exc[t] = [type |-> "ValueError", at |-> "_get_graph"]

(* the fetches of the call of thread t resolve to pairwise distinct bases *)
C3_Distinct(t) ==
    /\ Validating(t)
    /\ \A i \in 1..Len(fetches[t]) : Resolvable(fetches[t][i])
    /\ ~SharesBase(fetches[t])

(* C3, as stated: when the stripped names are pairwise distinct, validation *)
(* returns the stripped names, in fetch order.                              *)
C3_ReturnsNames ==
    \A t \in Threads :
       C3_Distinct(t) =>
          /\ validated[t].graph.type = "list"
          /\ validated[t].graph.items =
                [i \in 1..Len(fetches[t]) |-> Base(ResolvedName(fetches[t][i]))]

(* C3, amended: when the stripped names are pairwise distinct, validation   *)
(* succeeds and returns the active graph; the stripped names it computed    *)
(* are the base names of the fetches, in fetch order.                       *)
C3_ReturnsGraph ==
    \A t \in Threads :
       C3_Distinct(t) =>
          /\ validated[t].exc = "none"
          /\ validated[t].graph = DefaultGraph
          /\ validated[t].col_names =
                [i \in 1..Len(fetches[t]) |-> Base(ResolvedName(fetches[t][i]))]

C3_Witness ==
    \E t \in Threads :
       /\ C3_Distinct(t)
       /\ fetches[t] = <<Tensor(<<"x">>, 0), Str(<<"z", ":", "1">>)>>
       /\ validated[t].col_names = << <<"x">>, <<"z">> >>

(* C4: a finished reduction whose row has one column returned that value    *)
(* bare; with two or more columns it returned the list of all the values,   *)
(* in column order.                                                         *)
C4_Unpacked ==
    \A t \in Threads :
       (Succeeded(t) /\ op[t] \in Reductions) =>
          /\ Len(row[t]) = 1 => ret[t] = row[t][1]
          /\ Len(row[t]) >= 2 =>
                /\ ret[t].type = "list"
                /\ Len(ret[t].items) = Len(row[t])
                /\ \A i \in 1..Len(row[t]) : ret[t].items[i] = row[t][i]

C4_Witness ==
    \E t \in Threads :
       /\ Succeeded(t)
       /\ op[t] = "reduce_blocks"
       /\ Len(row[t]) = 1
       /\ ret[t] = [type |-> "ndarray", v |-> 20]

(* C5, as stated: discovery and the construction of the bridge handle each  *)
(* happen at most once in the process.                                      *)
C5_AtMostOnce == discoveries <= 1 /\ instances <= 1

(* C5, amended: only (_sc, _sql) is memoized. Once _sc is set, no call runs *)
(* discovery again and _sc never changes; the bridge handle is constructed  *)
(* anew by every call that passes _java_api.                                *)
C5_ContextMemoized ==
    [][/\ _sc # None => (_sc' = _sc /\ discoveries' = discoveries)
       /\ discoveries' # discoveries => \E t \in threads : pc[t] = "l22" /\ _sc = None
       /\ \A t \in threads :
             (pc[t] # "entry" /\ pc'[t] = "entry") => instances' = instances + 1]_vars

C5_Witness == _sc # None /\ discoveries = 1 /\ instances = 2

(* C6: when a call fails inside the discovery of _java_api, nothing has     *)
(* been cached: _sc and _sql are both still unset.                          *)
C6_NothingCached ==
    \A t \in Threads :
       (Finished(t) /\ exc[t].at = "_java_api") => (_sc = None /\ _sql = None)

(* the remote calls the function called by thread t makes, in order *)
C7_Expected(t) ==
    CASE op[t] \in Reductions -> <<op[t], "graph", "shape", "buildRow", "first">>
      [] op[t] \in {"map_rows", "map_blocks"} -> <<op[t], "graph", "shape", "buildDF">>
      [] op[t] = "analyze" -> <<"analyze">>
      [] op[t] = "print_schema" -> <<"explain">>
      [] OTHER -> <<>>

(* C7: the remote calls of a call are, in order, the entry-point method of  *)
(* the function's name on the dataframe's handle, then for the builder      *)
(* functions graph, shape and the terminal step (buildRow and the read of   *)
(* the row for a reduction, buildDF for a mapping), each once; a finished   *)
(* call has made all of them.                                               *)
C7_Protocol ==
    \A t \in Threads :
       (t \in threads /\ pc[t] # "idle") =>
          /\ IsPrefix(Methods(log[t]), C7_Expected(t))
          /\ Len(log[t]) >= 1 => log[t][1].args = <<dframe[t]._jdf>>
          /\ Succeeded(t) => Methods(log[t]) = C7_Expected(t)

C7_Witness ==
    \E t \in Threads :
       /\ Succeeded(t)
       /\ op[t] = "reduce_rows"
       /\ dframe[t]._jdf = "j2"
       /\ Len(log[t]) = 5

(* C8: a mapping call never reads a row of its result and returns the       *)
(* handle buildDF gave it, wrapped; a finished reduction has read the first *)
(* row.                                                                     *)
C8_Lazy ==
    \A t \in Threads :
       (t \in threads /\ pc[t] # "idle") =>
          /\ op[t] \in {"map_rows", "map_blocks"} =>
                /\ \A i \in 1..Len(log[t]) : log[t][i].m # "first"
                /\ Succeeded(t) =>
                      /\ ret[t].type = "DataFrame"
                      /\ ret[t]._jdf = jdf[t]
                      /\ jdf[t] \in ResultHandles
          /\ (op[t] \in Reductions /\ Succeeded(t)) =>
                log[t][Len(log[t])].m = "first"

C8_Witness ==
    \E t \in Threads :
       /\ Succeeded(t)
       /\ op[t] = "map_blocks"
       /\ ret[t]._jdf = "r2"

(* C9: whenever a call is about to wrap a remote handle into a dataframe    *)
(* (DataFrame(jdf, _sql)), _sql is set.                                     *)
C9_SqlSetWhenWrapping ==
    \A t \in Threads :
       (t \in threads /\ pc[t] \in {"wrap", "unpack"}) => _sql # None

(* the names and shapes of the fetches and of the nodes without inputs *)
C10_InputNodes ==
    SelectSeq(DefaultGraph.node, LAMBDA n : Len(n.input) = 0)

C10_ShapeOfName(name) ==
    LET b == Base(name)
        n == DefaultGraph.node[CHOOSE k \in 1..Len(DefaultGraph.node) :
                                   DefaultGraph.node[k].name = b]
        o == IF Len(b) = Len(name) THEN n.outputs[1]
             ELSE n.outputs[1 + (CHOOSE i \in 0..3 : <<Digits[i + 1]>> =
                                    SubSeq(name, Len(b) + 2, Len(name)))]
    IN  [i \in 1..Len(o) |-> IF o[i].known THEN o[i].size ELSE -1]

C10_Names(fs) ==
    [i \in 1..Len(fs) |-> ResolvedName(fs[i])]
       \o [i \in 1..Len(C10_InputNodes) |-> C10_InputNodes[i].name \o <<":", "0">>]

(* C10: a call whose fetches pass validation and that meets no remote or    *)
(* connection failure calls builder.shape with the resolved names of the    *)
(* fetches followed by "<node>:0" for every node without inputs, and with   *)
(* their shapes, unknown dimensions as -1.                                  *)
C10_ShapeCalled ==
    \A t \in Threads :
       (/\ Validating(t)
        /\ Finished(t)
        /\ validated[t].exc = "none"
        /\ exc[t].type # "Py4JJavaError"
        /\ exc[t].at # "_java_api") =>
          \E i \in 1..Len(log[t]) :
             /\ log[t][i].m = "shape"
             /\ log[t][i].args[1] = C10_Names(fetches[t])
             /\ log[t][i].args[2] =
                   [k \in 1..Len(C10_Names(fetches[t])) |->
                       C10_ShapeOfName(C10_Names(fetches[t])[k])]

====
